---- MODULE Spec2Model ----
(***************************************************************************)
(* Model of binary-adder-rnn-notebook.ipynb: the bit codec (arr2inbits,    *)
(* bits2arr), the sample generator (SampleData), the recurrent model       *)
(* (RnnCell), its training loop and the interactive calculator (RNNCalc).  *)
(*                                                                         *)
(* Integers of the program reach 2^33, so an integer n is modelled as the  *)
(* pair <<hi, lo>> with n = hi * 2^16 + lo and 0 <= lo < 2^16 (hi may be   *)
(* negative).  A numpy array is the record [dtype, vals].  A text is a     *)
(* sequence of one-character strings.  None is the empty sequence.         *)
(*                                                                         *)
(* The real numbers of the recurrent model are fixed-point numbers in      *)
(* thousandths; its weights are whole numbers.  A prediction sigmoid(z) is *)
(* modelled by its logit z, sigmoid being one-to-one.                      *)
(***************************************************************************)
EXTENDS Integers, Sequences, FiniteSets, TLC

VARIABLES
    pc,          \* position of the running cell / method
    err,         \* the exception that escaped, "none" when there is none
    dtype,       \* notebook global dtype (cell 1)
    samples,     \* notebook global samples
    batch_size,  \* notebook global batch_size
    split,       \* notebook global train_validation_batches_split, in 1/SplitDen
    self,        \* attributes of the SampleData object under construction
    x_test,      \* codec test: the input
    x_test_bits, \* codec test: result of arr2inbits
    x_test_int,  \* codec test: result of bits2arr
    calc,        \* attributes of the RNNCalc object
    x0,          \* RNNCalc.run local x0
    x1,          \* RNNCalc.run local x1
    x_unsafe,    \* RNNCalc._check_input local: the text input() returned
    stdout,      \* lines printed in the current calculator round
    use_tf_rnn_api, \* notebook global use_tf_rnn_api
    epochs,      \* notebook global epochs
    weights,     \* the tf.Variables of the session: the model's parameters
    fetched,     \* the sess.run of the current batch or round: what was fed, what came out
    loop         \* the training loop: epoch, batch_no, init_state, train steps run

vars == <<pc, err, dtype, samples, batch_size, split, self,
          x_test, x_test_bits, x_test_int, calc, x0, x1, x_unsafe, stdout,
          use_tf_rnn_api, epochs, weights, fetched, loop>>

(***************************************************************************)
(* Bounds of the model.                                                    *)
(***************************************************************************)
MaxArr == 2        \* longest array handed to the codec tests
MaxSamples == 3    \* largest sample count
MaxBatch == 3      \* largest batch size
SplitDen == 4      \* split fractions are k / SplitDen, k in 0..SplitDen
MaxText == 2       \* longest free-form text typed at a prompt
hidden_neurons == 3   \* size of the hidden vector in the model (the notebook sets 16)
MaxEpochs == 2     \* largest value of the notebook global epochs in the model

(***************************************************************************)
(* Integers.                                                               *)
(***************************************************************************)
Base == 2 ^ 16

Num(n) == <<n \div Base, n % Base>>

NumAdd(a, b) ==
    LET lo == a[2] + b[2]
    IN  <<a[1] + b[1] + (lo \div Base), lo % Base>>

\* a * k for a small multiplier k
NumMul(a, k) ==
    LET lo == a[2] * k
    IN  <<a[1] * k + (lo \div Base), lo % Base>>

NumLess(a, b) == a[1] < b[1] \/ (a[1] = b[1] /\ a[2] < b[2])

NumLeq(a, b) == a = b \/ NumLess(a, b)

\* 2 ** w for w in 8..32
Pow2(w) == IF w < 16 THEN <<0, 2 ^ w>> ELSE <<2 ^ (w - 16), 0>>

\* 2 ** w - 1
MaxUint(w) == NumAdd(Pow2(w), Num(-1))

None == <<>>

(***************************************************************************)
(* dtypes.                                                                 *)
(***************************************************************************)
valid_dtypes == {"uint8", "uint16", "uint32"}

ItemBits(dt) ==
    CASE dt = "uint8" -> 8
      [] dt = "uint16" -> 16
      [] dt = "uint32" -> 32
      [] dt = "int64" -> 64

\* mutant: the conversion saturates at the dtype's limits instead
Wrap_saturating(n, dt) ==
    IF n[1] < 0 THEN <<0, 0>>
    ELSE CASE dt = "uint8" -> IF n[1] > 0 \/ n[2] > 255 THEN <<0, 255>> ELSE n
           [] dt = "uint16" -> IF n[1] > 0 THEN <<0, 65535>> ELSE n
           [] dt = "uint32" -> IF n[1] >= Base THEN <<65535, 65535>> ELSE n
           [] dt = "int64" -> n

\* conversion of an integer to a fixed-width unsigned dtype keeps the low bits
Wrap(n, dt) ==
    CASE dt = "uint8" -> <<0, n[2] % 256>>
      [] dt = "uint16" -> <<0, n[2]>>
      [] dt = "uint32" -> <<n[1] % Base, n[2]>>
      [] dt = "int64" -> n

\* np.array(values, dtype=dt) and x.astype(dt)
np_array(values, dt) ==
    [dtype |-> dt, vals |-> [i \in 1..Len(values) |-> Wrap(values[i], dt)]]

\* byte k of n, k = 0 the least significant
ByteAt(n, k) ==
    IF k < 2 THEN (n[2] \div (256 ^ k)) % 256
    ELSE IF k < 6 THEN (n[1] \div (256 ^ (k - 2))) % 256
    ELSE IF n[1] < 0 THEN 255 ELSE 0

\* mutant: the view is taken in little-endian byte order
ViewUint8_little(x) ==
    LET isz == ItemBits(x.dtype) \div 8
    IN  [n \in 1..(Len(x.vals) * isz) |->
            ByteAt(x.vals[((n - 1) \div isz) + 1], (n - 1) % isz)]

\* x.astype(x.dtype.newbyteorder("B")).view(np.uint8): most significant byte first
ViewUint8(x) ==
    LET isz == ItemBits(x.dtype) \div 8
    IN  [n \in 1..(Len(x.vals) * isz) |->
            ByteAt(x.vals[((n - 1) \div isz) + 1], isz - 1 - ((n - 1) % isz))]

\* mutant: each byte is unpacked least significant bit first
unpackbits_lsb(bytes) ==
    [n \in 1..(8 * Len(bytes)) |->
        (bytes[((n - 1) \div 8) + 1] \div (2 ^ ((n - 1) % 8))) % 2]

\* np.unpackbits: each byte most significant bit first
unpackbits(bytes) ==
    [n \in 1..(8 * Len(bytes)) |->
        (bytes[((n - 1) \div 8) + 1] \div (2 ^ (7 - ((n - 1) % 8)))) % 2]

\* s[::-1]
Flip(s) ==
    LET len == Len(s)
    IN  [n \in 1..len |-> s[len + 1 - n]]

arr2inbits(x) == Flip(unpackbits(ViewUint8(x)))

\* np.packbits: 8 bits per byte, most significant first, zero padded at the end
packbits(b) ==
    LET len == Len(b)
        bit(n) == IF n <= len THEN (IF b[n] = 0 THEN 0 ELSE 1) ELSE 0
    IN  [m \in 1..((len + 7) \div 8) |->
            bit(8 * m - 7) * 128 + bit(8 * m - 6) * 64 + bit(8 * m - 5) * 32
            + bit(8 * m - 4) * 16 + bit(8 * m - 3) * 8 + bit(8 * m - 2) * 4
            + bit(8 * m - 1) * 2 + bit(8 * m)]

\* mutant: the byte weights are in little-endian order
multiplier_little(dt) ==
    IF dt = "uint16" THEN <<Num(1), Num(256)>>
    ELSE <<Num(1), Num(256), <<1, 0>>, <<256, 0>>>>

\* the multiplier array of bits2arr
multiplier(dt) ==
    IF dt = "uint16" THEN <<Num(256), Num(1)>>
    ELSE <<<<256, 0>>, <<1, 0>>, Num(256), Num(1)>>

RECURSIVE AddReduce(_, _)
\* np.add.reduce over the first n entries of a row
AddReduce(row, n) ==
    IF n = 0 THEN Num(0) ELSE NumAdd(AddReduce(row, n - 1), row[n])

\* np.reshape(x_int, [n / g, g]) is possible
bits2arrReshapes(x, dt) ==
    dt = "uint8" \/ ((Len(x) + 7) \div 8) % (ItemBits(dt) \div 8) = 0

bits2arr(x, dt) ==
    LET x_bits_flipped == Flip(x)
        x_int == packbits(x_bits_flipped)
        g == ItemBits(dt) \div 8
        x_weighted(r) == [j \in 1..g |-> NumMul(multiplier(dt)[j], x_int[(r - 1) * g + j])]
    IN  IF dt = "uint8"
        THEN [dtype |-> "uint8", vals |-> [m \in 1..Len(x_int) |-> Num(x_int[m])]]
        ELSE [dtype |-> "int64",
              vals |-> [r \in 1..(Len(x_int) \div g) |-> AddReduce(x_weighted(r), g)]]

\* the encoding of one integer, as RNNCalc.run builds it
encode(value, dt) == arr2inbits(np_array(<<value>>, dt))

(***************************************************************************)
(* Codec tests: test_arr2inbits and test_bits2arr, run on more inputs.     *)
(***************************************************************************)
NoArr == [dtype |-> "none", vals |-> <<>>]

\* integers used as array elements, all within the dtype's range
TestValues(dt) ==
    CASE dt = "uint8" ->
            {Num(0), Num(1), Num(3), Num(5), Num(44), Num(100), Num(128),
             Num(200), Num(254), Num(255)}
      [] dt = "uint16" ->
            {Num(0), Num(1), Num(3), Num(5), Num(255), Num(256), Num(32768),
             Num(40000), Num(65534), Num(65535)}
      [] dt = "uint32" ->
            {Num(0), Num(1), Num(3), Num(5), Num(256), Num(45246), Num(765747),
             Num(810993), <<256, 0>>, <<32768, 0>>, <<65535, 65534>>,
             <<65535, 65535>>}

TestArrays(dt) ==
    UNION {[1..k -> TestValues(dt)] : k \in 1..MaxArr}

\* bit vectors of length w: at most two bits set, and their complements
TestVectors(w) ==
    LET marks == {{}} \cup {{a, b} : a, b \in 1..w}
    IN  {[i \in 1..w |-> IF (i \in m) = on THEN 1 ELSE 0] :
            m \in marks, on \in BOOLEAN}

\* Python integers handed to the encoder, in and out of the dtype's range
TestScalars(dt) ==
    TestValues(dt)
    \cup {Num(-1), Num(-256), Pow2(ItemBits(dt)),
          NumAdd(Pow2(ItemBits(dt)), Num(44)),
          NumAdd(Pow2(ItemBits(dt)), MaxUint(ItemBits(dt))),
          NumMul(Pow2(ItemBits(dt)), 3)}

CodecIdle ==
    /\ x_test = None
    /\ x_test_bits = <<>>
    /\ x_test_int = NoArr

DataIdle ==
    /\ samples = 0
    /\ batch_size = 0
    /\ split = 0
    /\ self = <<>>

CalcIdle ==
    /\ calc = <<>>
    /\ x0 = None
    /\ x1 = None
    /\ x_unsafe = <<>>
    /\ stdout = <<>>

RnnIdle ==
    /\ use_tf_rnn_api = FALSE
    /\ epochs = 0
    /\ weights = <<>>
    /\ fetched = <<>>
    /\ loop = <<>>

codecVars == <<x_test, x_test_bits, x_test_int>>
rnnVars == <<use_tf_rnn_api, epochs, weights, fetched, loop>>
dataVars == <<samples, batch_size, split, self>>
calcVars == <<calc, x0, x1, x_unsafe, stdout>>

InitCodec ==
    /\ err = "none"
    /\ dtype \in valid_dtypes
    /\ DataIdle
    /\ CalcIdle
    /\ RnnIdle
    /\ x_test_bits = <<>>
    /\ x_test_int = NoArr
    /\ \/ /\ pc = "values"
          /\ \E a \in TestArrays(dtype) : x_test = [dtype |-> dtype, vals |-> a]
       \/ /\ pc = "vector"
          /\ x_test \in TestVectors(ItemBits(dtype))
       \/ /\ pc = "scalar"
          /\ x_test \in TestScalars(dtype)

\* x_test_bits = arr2inbits(x_test)
TestArr2inbits ==
    /\ pc = "values"
    /\ x_test_bits' = arr2inbits(x_test)
    /\ pc' = "values_encoded"
    /\ UNCHANGED <<err, dtype, x_test, x_test_int, dataVars, calcVars, rnnVars>>

\* x_test_int = bits2arr(..., dtype)
TestBits2arr ==
    /\ \/ /\ pc = "values_encoded"
          /\ bits2arrReshapes(x_test_bits, dtype)
          /\ x_test_int' = bits2arr(x_test_bits, dtype)
          /\ pc' = "values_done"
       \/ /\ pc = "vector"
          /\ bits2arrReshapes(x_test, dtype)
          /\ x_test_int' = bits2arr(x_test, dtype)
          /\ pc' = "vector_decoded"
    /\ UNCHANGED <<err, dtype, x_test, x_test_bits, dataVars, calcVars, rnnVars>>

\* arr2inbits(np.array((v,), dtype=np_dtype))
TestEncode ==
    /\ \/ /\ pc = "vector_decoded"
          /\ x_test_bits' = encode(x_test_int.vals[1], dtype)
          /\ pc' = "vector_done"
       \/ /\ pc = "scalar"
          /\ x_test_bits' = encode(x_test, dtype)
          /\ pc' = "scalar_done"
    /\ UNCHANGED <<err, dtype, x_test, x_test_int, dataVars, calcVars, rnnVars>>

NextCodec ==
    \/ TestArr2inbits
    \/ TestBits2arr
    \/ TestEncode

SpecCodec == InitCodec /\ [][NextCodec]_vars

(***************************************************************************)
(* Claims about the codec.                                                 *)
(***************************************************************************)
\* floor(v / 2^i) mod 2
BitOf(v, i) ==
    IF i < 16 THEN (v[2] \div (2 ^ i)) % 2 ELSE (v[1] \div (2 ^ (i - 16))) % 2

InRange(v, w) == NumLeq(Num(0), v) /\ NumLess(v, Pow2(w))

\* C1: decoding the encoding of an array of width-w unsigned integers gives
\* the same integers in the same element order.
C1_RoundTripValues ==
    pc = "values_done" =>
        /\ Len(x_test_int.vals) = Len(x_test.vals)
        /\ \A i \in 1..Len(x_test.vals) : x_test_int.vals[i] = x_test.vals[i]

C1_Witness ==
    /\ pc = "values_done"
    /\ dtype = "uint32"
    /\ Len(x_test.vals) = 2
    /\ x_test.vals[1] = <<65535, 65534>>
    /\ x_test.vals[2] = Num(5)
    /\ x_test_int.vals = x_test.vals

\* C2: encoding, at width w, the integer decoded from a length-w bit vector
\* gives the same w bits again.
C2_RoundTripVector ==
    pc = "vector_done" =>
        /\ Len(x_test_bits) = ItemBits(dtype)
        /\ Len(x_test) = ItemBits(dtype)
        /\ \A i \in 1..Len(x_test) : x_test_bits[i] = x_test[i]

C2_Witness ==
    /\ pc = "vector_done"
    /\ dtype = "uint16"
    /\ x_test[1] = 1
    /\ x_test[16] = 1
    /\ x_test[8] = 0
    /\ x_test_int.vals = <<Num(32769)>>
    /\ x_test_bits = x_test

Zeros(n) == [i \in 1..n |-> 0]

\* C3: arr2inbits writes k * w bits, every value least significant bit first,
\* the blocks in reverse element order; [3, 5] gives the bits of 5, then of 3.
C3_Layout ==
    pc = "values_encoded" =>
        LET w == ItemBits(dtype)
            k == Len(x_test.vals)
        IN  /\ Len(x_test_bits) = k * w
            /\ \A j \in 0..(k - 1) : \A i \in 0..(w - 1) :
                   x_test_bits[j * w + i + 1] = BitOf(x_test.vals[k - j], i)
            /\ x_test.vals = <<Num(3), Num(5)>> =>
                   x_test_bits = <<1, 0, 1>> \o Zeros(w - 3) \o <<1, 1>> \o Zeros(w - 2)

C3_Witness ==
    /\ pc = "values_encoded"
    /\ dtype = "uint32"
    /\ x_test.vals = <<Num(3), Num(5)>>
    /\ Len(x_test_bits) = 64
    /\ x_test_bits[1] = 1 /\ x_test_bits[3] = 1
    /\ x_test_bits[33] = 1 /\ x_test_bits[34] = 1

max_uint(dt) == MaxUint(ItemBits(dt))

\* the integers the model lets a random draw produce, max_uint included
SamplePool(dt) ==
    CASE dt = "uint8" -> {Num(100), Num(200), max_uint(dt)}
      [] dt = "uint16" -> {Num(30000), Num(40000), max_uint(dt)}
      [] dt = "uint32" -> {Num(765747), <<49152, 0>>, max_uint(dt)}

\* np.random.choice(a, ...) draws each element from np.arange(a)
RandomChoice(a, dt) == {v \in SamplePool(dt) : NumLeq(Num(0), v) /\ NumLess(v, a)}

\* the pairs (x0_uint, x1_uint) that gen_x can return
gen_x(n, dt) ==
    LET x_init == {np_array(a, dt) : a \in [1..n -> RandomChoice(max_uint(dt), dt)]}
    IN  x_init \X x_init

\* mutant: the sum is taken without dtype=, in a wider accumulator
calc_y_wide(x0_uint, x1_uint, dt) ==
    [dtype |-> dt,
     vals |-> [i \in 1..Len(x0_uint.vals) |-> NumAdd(x0_uint.vals[i], x1_uint.vals[i])]]

\* np.sum(np.hstack([x0_uint, x1_uint]), axis=1, dtype=dt)
calc_y(x0_uint, x1_uint, dt) ==
    [dtype |-> dt,
     vals |-> [i \in 1..Len(x0_uint.vals) |->
                 Wrap(NumAdd(Wrap(x0_uint.vals[i], dt), Wrap(x1_uint.vals[i], dt)), dt)]]

\* np.reshape(bits, [rows, cols])
Reshape(bits, rows, cols) ==
    [r \in 1..rows |-> [t \in 1..cols |-> bits[(r - 1) * cols + t]]]

\* np.dstack([a, b]) of two [rows, cols] arrays
dstack(a, b) ==
    LET rows == Len(a)
        cols == Len(a[1])
    IN  [r \in 1..rows |-> [t \in 1..cols |-> <<a[r][t], b[r][t]>>]]

\* mutant: the label rows keep the order of y_uint, which arr2inbits reversed
\* for the operands
Reshape1_unreversed(bits, rows, cols) ==
    [r \in 1..rows |-> [t \in 1..cols |-> <<bits[(rows - r) * cols + t]>>]]

\* np.reshape(bits, [rows, cols, 1])
Reshape1(bits, rows, cols) ==
    [r \in 1..rows |-> [t \in 1..cols |-> <<bits[(r - 1) * cols + t]>>]]

\* the exception np.split(ary, sections, axis=0) raises, "none" when it splits
np_split_error(ary, sections) ==
    IF sections = 0 THEN "ZeroDivisionError"
    ELSE IF Len(ary) % sections # 0 THEN "ValueError"
    ELSE "none"

\* np.split(ary, sections, axis=0): sections pieces of equal length
np_split(ary, sections) ==
    LET n == Len(ary) \div sections
    IN  [b \in 1..sections |-> [r \in 1..n |-> ary[(b - 1) * n + r]]]

\* a slice index as Python resolves it against a list of length n
SliceIndex(i, n) ==
    IF i < 0 THEN (IF i + n < 0 THEN 0 ELSE i + n)
    ELSE IF i > n THEN n ELSE i

\* the positions (from 1) that s[start:stop] selects in a list of length n
SlicePositions(n, start, stop) ==
    {k \in 1..n : SliceIndex(start, n) < k /\ k <= SliceIndex(stop, n)}

\* s[start:stop]
Slice(s, start, stop) ==
    LET lo == SliceIndex(start, Len(s))
        hi == SliceIndex(stop, Len(s))
    IN  IF hi <= lo THEN <<>> ELSE [k \in 1..(hi - lo) |-> s[lo + k]]

\* int(train_validation_batches_split * batch_count), the split being f / SplitDen
train_batches_of(f, batch_count) == (f * batch_count) \div SplitDen

\* mutant: the samples / batch_size check is missing
config_error_nomultiple(dt, n, b) ==
    IF dt \notin valid_dtypes THEN "ValueError" ELSE "none"

\* the exception the checks at the head of SampleData.__init__ raise
config_error(dt, n, b) ==
    IF dt \notin valid_dtypes THEN "ValueError"
    ELSE IF n % b # 0 THEN "ValueError"
    ELSE "none"

InitData ==
    /\ pc = "SampleData"
    /\ err = "none"
    /\ dtype \in valid_dtypes \cup {"uint64"}
    /\ samples \in 1..MaxSamples
    /\ batch_size \in 1..MaxBatch
    /\ split \in 0..SplitDen
    /\ self = <<>>
    /\ CodecIdle
    /\ CalcIdle
    /\ RnnIdle

cfgVars == <<dtype, samples, batch_size, split>>

\* SampleData.__init__, the checks and self.dtype, self.bitwidth
Validate ==
    /\ pc = "SampleData"
    /\ IF config_error(dtype, samples, batch_size) # "none"
       THEN /\ err' = config_error(dtype, samples, batch_size)
            /\ pc' = "raised"
            /\ self' = self
       ELSE /\ self' = [dtype |-> dtype, bitwidth |-> ItemBits(dtype)]
            /\ pc' = "generate"
            /\ err' = err
    /\ UNCHANGED <<cfgVars, codecVars, calcVars, rnnVars>>

\* self.x0_uint, self.x1_uint = self.gen_x(...); self.y_uint = self.calc_y(...)
Generate ==
    /\ pc = "generate"
    /\ \E x \in gen_x(samples, dtype) :
           self' = self @@ [x0_uint |-> x[1], x1_uint |-> x[2],
                            y_uint |-> calc_y(x[1], x[2], dtype)]
    /\ pc' = "encode"
    /\ UNCHANGED <<err, cfgVars, codecVars, calcVars, rnnVars>>

\* self.x0_bits, self.x1_bits, self.y_bits
Encode ==
    /\ pc = "encode"
    /\ self' = self @@ [x0_bits |-> arr2inbits(self.x0_uint),
                        x1_bits |-> arr2inbits(self.x1_uint),
                        y_bits |-> arr2inbits(self.y_uint)]
    /\ pc' = "reshape"
    /\ UNCHANGED <<err, cfgVars, codecVars, calcVars, rnnVars>>

\* self.x0_samples_bits ... self.y_samples_bits_dims
Stack ==
    /\ pc = "reshape"
    /\ self' = self @@
           [x0_samples_bits |-> Reshape(self.x0_bits, samples, self.bitwidth),
            x1_samples_bits |-> Reshape(self.x1_bits, samples, self.bitwidth),
            x_samples_bits_dims |->
                dstack(Reshape(self.x0_bits, samples, self.bitwidth),
                       Reshape(self.x1_bits, samples, self.bitwidth)),
            y_samples_bits_dims |-> Reshape1(self.y_bits, samples, self.bitwidth)]
    /\ pc' = "batch"
    /\ UNCHANGED <<err, cfgVars, codecVars, calcVars, rnnVars>>

\* self.batch_count, self.x_all, self.y_all
Batch ==
    /\ pc = "batch"
    /\ LET batch_count == samples \div batch_size
           e == np_split_error(self.x_samples_bits_dims, batch_count)
       IN  IF e # "none"
           THEN /\ self' = self @@ [batch_count |-> batch_count]
                /\ err' = e
                /\ pc' = "raised"
           ELSE /\ self' = self @@
                       [batch_count |-> batch_count,
                        x_all |-> np_split(self.x_samples_bits_dims, batch_count),
                        y_all |-> np_split(self.y_samples_bits_dims, batch_count)]
                /\ err' = err
                /\ pc' = "split"
    /\ UNCHANGED <<cfgVars, codecVars, calcVars, rnnVars>>

\* train_batches and the four slices
Split ==
    /\ pc = "split"
    /\ LET train_batches == train_batches_of(split, self.batch_count)
       IN  self' = self @@
               [x_train |-> Slice(self.x_all, 0, train_batches - 1),
                y_train |-> Slice(self.y_all, 0, train_batches - 1),
                x_validation |-> Slice(self.x_all, train_batches, self.batch_count),
                y_validation |-> Slice(self.y_all, train_batches, self.batch_count)]
    /\ pc' = "report"
    /\ UNCHANGED <<err, cfgVars, codecVars, calcVars, rnnVars>>

\* what print_batch_dims prints before var[0] is read
batch_dims(name, var) == <<name, Len(var)>>

\* the prints at the end of __init__; var[0] of an empty list raises IndexError
Report ==
    /\ pc = "report"
    /\ IF Len(self.x_train) = 0
       THEN /\ stdout' = <<batch_dims("x_train", self.x_train)>>
            /\ err' = "IndexError"
            /\ pc' = "raised"
       ELSE IF Len(self.x_validation) = 0
       THEN /\ stdout' = <<batch_dims("x_train", self.x_train),
                           batch_dims("y_train", self.y_train),
                           batch_dims("x_validation", self.x_validation)>>
            /\ err' = "IndexError"
            /\ pc' = "raised"
       ELSE /\ stdout' = <<batch_dims("x_train", self.x_train),
                           batch_dims("y_train", self.y_train),
                           batch_dims("x_validation", self.x_validation),
                           batch_dims("y_validation", self.y_validation)>>
            /\ err' = err
            /\ pc' = "constructed"
    /\ UNCHANGED <<cfgVars, self, codecVars, calc, x0, x1, x_unsafe, rnnVars>>

Next ==
    \/ Validate
    \/ Generate
    \/ Encode
    \/ Stack
    \/ Batch
    \/ Split
    \/ Report

Spec == InitData /\ [][Next]_vars

(***************************************************************************)
(* Claims about SampleData.                                                *)
(***************************************************************************)
\* the object has attribute a
Has(a) == DOMAIN self # {} /\ a \in DOMAIN self

\* C4: every label is (x0 + x1) mod 2^w, also when x0 + x1 >= 2^w
\* (width 8: 200 + 100 gives 44).
C4_ModularSum ==
    Has("y_uint") =>
        \A i \in 1..samples :
            LET a == self.x0_uint.vals[i]
                b == self.x1_uint.vals[i]
                y == self.y_uint.vals[i]
            IN  /\ InRange(y, self.bitwidth)
                /\ \/ NumAdd(a, b) = y
                   \/ NumAdd(a, b) = NumAdd(y, Pow2(self.bitwidth))
                /\ (dtype = "uint8" /\ a = Num(200) /\ b = Num(100)) => y = Num(44)

C4_Witness ==
    /\ Has("y_uint")
    /\ dtype = "uint8"
    /\ samples = 2
    /\ self.x0_uint.vals = <<Num(200), Num(100)>>
    /\ self.x1_uint.vals = <<Num(100), Num(100)>>
    /\ self.y_uint.vals = <<Num(44), Num(200)>>

\* C5: the operands gen_x can produce are exactly [0, max_value]: none is
\* outside, and every value in it, max_value included, can be drawn.
C5_OperandRange ==
    Has("x0_uint") =>
        /\ \A i \in 1..samples :
               /\ InRange(self.x0_uint.vals[i], self.bitwidth)
               /\ InRange(self.x1_uint.vals[i], self.bitwidth)
        /\ \A v \in SamplePool(dtype) :
               (NumLeq(Num(0), v) /\ NumLeq(v, max_uint(dtype)))
                   => v \in RandomChoice(max_uint(dtype), dtype)

\* the batches of x_all (counted from 1) that each split holds
TrainPositions ==
    SlicePositions(self.batch_count, 0,
                   train_batches_of(split, self.batch_count) - 1)

ValidationPositions ==
    SlicePositions(self.batch_count,
                   train_batches_of(split, self.batch_count), self.batch_count)

\* C6: the training split holds int(f * batch_count) batches, the validation
\* split the rest, and every batch is in one of the two.
C6_SplitCovers ==
    Has("x_train") =>
        LET train_batches == train_batches_of(split, self.batch_count)
        IN  /\ Len(self.x_train) = train_batches
            /\ Len(self.y_train) = train_batches
            /\ Len(self.x_validation) = self.batch_count - train_batches
            /\ Len(self.x_train) + Len(self.x_validation) = self.batch_count
            /\ TrainPositions \cup ValidationPositions = 1..self.batch_count

\* C7: no batch is both in the training split and in the validation split.
C7_SplitDisjoint ==
    Has("x_train") => TrainPositions \cap ValidationPositions = {}

\* C8: a sample count that is no multiple of the batch size, or a dtype
\* outside {uint8, uint16, uint32}, raises before anything is generated: the
\* object never holds any data.
C8_FailFast ==
    (dtype \notin valid_dtypes \/ samples % batch_size # 0) =>
        /\ pc \in {"SampleData", "raised"}
        /\ DOMAIN self = {}
        /\ pc = "raised" => err = "ValueError"

C8_Witness ==
    /\ pc = "raised"
    /\ err = "ValueError"
    /\ dtype = "uint32"
    /\ samples = 3
    /\ batch_size = 2
    /\ DOMAIN self = {}

\* the bits of v, least significant first, w of them
LsbFirst(v, w) == [t \in 1..w |-> BitOf(v, t - 1)]

\* C19: row i of batch b of y_all is the LSB-first encoding of
\* (x0 + x1) mod 2^width for the very operands x0, x1 whose LSB-first
\* encodings are the two columns of row i of batch b of x_all; every batch
\* has batch_size rows of width positions.
C19_RowsAligned ==
    Has("y_all") =>
        /\ Len(self.x_all) = self.batch_count
        /\ Len(self.y_all) = self.batch_count
        /\ \A b \in 1..self.batch_count :
               /\ Len(self.x_all[b]) = batch_size
               /\ Len(self.y_all[b]) = batch_size
               /\ \A i \in 1..batch_size :
                      LET k == samples + 1 - ((b - 1) * batch_size + i)
                          operand0 == self.x0_uint.vals[k]
                          operand1 == self.x1_uint.vals[k]
                          w == self.bitwidth
                          sum == NumAdd(operand0, operand1)
                          wrapped == IF InRange(sum, w) THEN sum
                                     ELSE NumAdd(sum, NumMul(Pow2(w), -1))
                      IN  /\ Len(self.x_all[b][i]) = w
                          /\ Len(self.y_all[b][i]) = w
                          /\ \A t \in 1..w :
                                 /\ self.x_all[b][i][t] =
                                        <<BitOf(operand0, t - 1), BitOf(operand1, t - 1)>>
                                 /\ self.y_all[b][i][t] = <<LsbFirst(wrapped, w)[t]>>

C19_Witness ==
    /\ Has("y_all")
    /\ dtype = "uint8"
    /\ samples = 2
    /\ batch_size = 1
    /\ self.x0_uint.vals = <<Num(200), Num(100)>>
    /\ self.x1_uint.vals = <<Num(100), Num(100)>>
    /\ self.y_all[1][1] = [t \in 1..8 |-> <<LsbFirst(Num(200), 8)[t]>>]
    /\ self.y_all[2][1] = [t \in 1..8 |-> <<LsbFirst(Num(44), 8)[t]>>]
    /\ self.x_all[2][1][4] = <<1, 0>>

(***************************************************************************)
(* RnnCell: the graph that sess.run evaluates.                             *)
(***************************************************************************)
\* one unit of the model's real numbers, in thousandths
Milli == 10 ^ 3

H == 1..hidden_neurons

RECURSIVE Sum(_, _)
\* f[1] + ... + f[n]
Sum(f, n) == IF n = 0 THEN 0 ELSE Sum(f, n - 1) + f[n]

\* np.zeros([rows, hidden_neurons])
np_zeros(rows) == [r \in 1..rows |-> [k \in H |-> 0] \o <<>>] \o <<>>

\* tf.random_uniform(shape, -0.1, 0.1) in whole numbers: every entry is 0
InitialWeights ==
    [i_h |-> [i \in 1..2 |-> [k \in H |-> 0]],
     h_h |-> [j \in H |-> [k \in H |-> 0]],
     b_h |-> [k \in H |-> 0],
     h_o |-> [k \in H |-> 0],
     b_o |-> 0]

\* weights that add: unit k holds relu(bit0 + bit1 + carry - (k - 1)), the
\* carry is unit 2 minus unit 3 of the step before
AdderWeights ==
    [i_h |-> [i \in 1..2 |-> [k \in H |-> IF k <= 3 THEN 1 ELSE 0]],
     h_h |-> [j \in H |-> [k \in H |->
                 IF k > 3 THEN 0 ELSE IF j = 2 THEN 1 ELSE IF j = 3 THEN -1 ELSE 0]],
     b_h |-> [k \in H |-> IF k <= 3 THEN 1 - k ELSE 0],
     h_o |-> [k \in H |-> IF k = 1 THEN 2 ELSE IF k = 2 THEN -4 ELSE IF k = 3 THEN 4 ELSE 0],
     b_o |-> -1]

\* weights that count: unit 1 counts the ones of bit0, unit 2 those of bit1
CounterWeights ==
    [i_h |-> [i \in 1..2 |-> [k \in H |-> IF k = i THEN 1 ELSE 0]],
     h_h |-> [j \in H |-> [k \in H |-> IF j = k /\ k <= 2 THEN 1 ELSE 0]],
     b_h |-> [k \in H |-> 0],
     h_o |-> [k \in H |-> IF k = 1 THEN 1 ELSE IF k = 2 THEN -1 ELSE 0],
     b_o |-> 0]

\* the values the variables can hold after any number of train steps
Parameters == {InitialWeights, AdderWeights, CounterWeights}

\* tf.nn.relu
relu(z) == IF z > 0 THEN z ELSE 0

\* tanh at 0, 0.25, ..., 4.0, in thousandths
TanhTable ==
    <<0, 245, 462, 635, 762, 848, 905, 941, 964, 978, 987, 992, 995, 997, 998,
      999, 999>>

\* tanh, the default activation of BasicRNNCell: the table, linear in between
tanh(z) ==
    LET a == IF z < 0 THEN -z ELSE z
        i == a \div 250
        v == IF a > 4150 THEN Milli
             ELSE IF a >= 4000 THEN 999
             ELSE TanhTable[i + 1]
                  + ((TanhTable[i + 2] - TanhTable[i + 1]) * (a - 250 * i) + 125) \div 250
    IN  IF z < 0 THEN -v ELSE v

\* current_input . w_i_h + b_h + h_0 . w_h_h for one row, before the activation
Linear(p, current_input, h_0) ==
    [k \in H |->
        Milli * (current_input[1] * p.i_h[1][k] + current_input[2] * p.i_h[2][k]
                 + p.b_h[k])
        + Sum([j \in H |-> h_0[j] * p.h_h[j][k]], hidden_neurons)]

\* h . w_h_o + b_o for one row
Logit(p, h) == Sum([k \in H |-> h[k] * p.h_o[k]], hidden_neurons) + Milli * p.b_o

\* an array held as a tuple of its entries
Vector(v) == v \o <<>>

RECURSIVE ManualUnroll(_, _, _, _)
\* "for current_input in self._x_series", continued from the series _h built
\* so far and its last entry h_0; the result is self._h
ManualUnroll(p, x_series, h_0, _h) ==
    IF Len(_h) = Len(x_series) THEN _h
    ELSE LET temp_h_1 == Vector(Linear(p, x_series[Len(_h) + 1], h_0))
             h_1 == Vector([k \in H |-> relu(temp_h_1[k])])
         IN  ManualUnroll(p, x_series, h_1, Append(_h, h_1))

RECURSIVE dynamic_rnn(_, _, _, _)
\* tf.nn.dynamic_rnn(BasicRNNCell(hidden_neurons), ...), continued from the
\* states computed so far and the last of them; the result is states
dynamic_rnn(p, x_series, state, states) ==
    IF Len(states) = Len(x_series) THEN states
    ELSE LET pre == Vector(Linear(p, x_series[Len(states) + 1], state))
             output == Vector([k \in H |-> tanh(pre[k])])
         IN  dynamic_rnn(p, x_series, output, Append(states, output))

\* the hidden series and the logits series of the graph for one row
RnnCell(api, p, x_series, initial_state) ==
    LET h == IF api THEN dynamic_rnn(p, x_series, initial_state, <<>>)
             ELSE ManualUnroll(p, x_series, initial_state, <<>>)
    IN  [h |-> h, logits |-> Vector([t \in 1..Len(x_series) |-> Logit(p, h[t])])]

\* sess.run of the graph's outputs on a feed_dict, row by row
sess_run(api, p, feed) ==
    LET rows == Len(feed.x)
        out == Vector([r \in 1..rows |->
                          RnnCell(api, p, Vector(feed.x[r]), feed.initial_state[r])])
    IN  [x |-> feed.x,
         initial_state |-> feed.initial_state,
         h |-> Vector([r \in 1..rows |-> out[r].h]),
         logits |-> Vector([r \in 1..rows |-> out[r].logits])]

\* np.around(sigmoid(z)): 1 above one half, 0 at one half and below
around(z) == IF z > 0 THEN 1 ELSE 0

(***************************************************************************)
(* Training: cells 6, 7 and 10 of the notebook, run on a SampleData whose  *)
(* construction succeeded.                                                 *)
(***************************************************************************)
\* the attributes of the SampleData that __init__ builds from the operands x
Constructed(dt, n, b, f, x) ==
    LET w == ItemBits(dt)
        x0_bits == arr2inbits(x[1])
        x1_bits == arr2inbits(x[2])
        y_uint == calc_y(x[1], x[2], dt)
        y_bits == arr2inbits(y_uint)
        x_dims == dstack(Reshape(x0_bits, n, w), Reshape(x1_bits, n, w))
        y_dims == Reshape1(y_bits, n, w)
        batch_count == n \div b
        x_all == np_split(x_dims, batch_count)
        y_all == np_split(y_dims, batch_count)
        train_batches == train_batches_of(f, batch_count)
    IN  [dtype |-> dt, bitwidth |-> w,
         x0_uint |-> x[1], x1_uint |-> x[2], y_uint |-> y_uint,
         x0_bits |-> x0_bits, x1_bits |-> x1_bits, y_bits |-> y_bits,
         x0_samples_bits |-> Reshape(x0_bits, n, w),
         x1_samples_bits |-> Reshape(x1_bits, n, w),
         x_samples_bits_dims |-> x_dims, y_samples_bits_dims |-> y_dims,
         batch_count |-> batch_count, x_all |-> x_all, y_all |-> y_all,
         x_train |-> Slice(x_all, 0, train_batches - 1),
         y_train |-> Slice(y_all, 0, train_batches - 1),
         x_validation |-> Slice(x_all, train_batches, batch_count),
         y_validation |-> Slice(y_all, train_batches, batch_count)]

\* the settings with which SampleData.__init__ returns: no check fails and
\* neither split is empty
Constructible(n, b, f) ==
    /\ n % b = 0
    /\ Cardinality(SlicePositions(n \div b, 0, train_batches_of(f, n \div b) - 1)) > 0
    /\ Cardinality(SlicePositions(n \div b, train_batches_of(f, n \div b), n \div b)) > 0

\* the operands the training runs of the model are given: two of the draws
\* of gen_x, the one the other with x0 and x1 exchanged
TrainOperands(n, dt) ==
    LET low == CHOOSE v \in RandomChoice(max_uint(dt), dt) :
                   \A u \in RandomChoice(max_uint(dt), dt) : NumLeq(v, u)
        high == CHOOSE v \in RandomChoice(max_uint(dt), dt) : v # low
        a == np_array([i \in 1..n |-> IF i % 2 = 1 THEN high ELSE low], dt)
        b == np_array([i \in 1..n |-> IF i % 2 = 1 THEN low ELSE high], dt)
    IN  {<<a, b>>, <<b, a>>}

InitTrain ==
    /\ pc = "RnnCell"
    /\ err = "none"
    /\ dtype \in valid_dtypes
    /\ samples \in 1..MaxSamples
    /\ batch_size \in 1..MaxBatch
    /\ split \in 0..SplitDen
    /\ Constructible(samples, batch_size, split)
    /\ \E x \in TrainOperands(samples, dtype) :
           self = Constructed(dtype, samples, batch_size, split, x)
    /\ stdout = <<batch_dims("x_train", self.x_train),
                  batch_dims("y_train", self.y_train),
                  batch_dims("x_validation", self.x_validation),
                  batch_dims("y_validation", self.y_validation)>>
    /\ CodecIdle
    /\ calc = <<>>
    /\ x0 = None
    /\ x1 = None
    /\ x_unsafe = <<>>
    /\ use_tf_rnn_api \in BOOLEAN
    /\ epochs \in 1..MaxEpochs
    /\ weights = <<>>
    /\ fetched = <<>>
    /\ loop = <<>>

\* my_rnn = RnnCell(...); sess.run(tf.global_variables_initializer())
BuildRnn ==
    /\ pc = "RnnCell"
    /\ weights' = InitialWeights
    /\ pc' = "init_state"
    /\ UNCHANGED <<err, cfgVars, self, codecVars, calcVars, use_tf_rnn_api, epochs,
                   fetched, loop>>

\* init_state = np.zeros([batch_size, hidden_neurons]); for epoch in range(epochs)
StartTraining ==
    /\ pc = "init_state"
    /\ loop' = [init_state |-> np_zeros(batch_size), epoch |-> 0, batch_no |-> 0,
                train_steps |-> 0]
    /\ pc' = "train_epoch"
    /\ UNCHANGED <<err, cfgVars, self, codecVars, calcVars, use_tf_rnn_api, epochs,
                   weights, fetched>>

\* what train_epoch asks sess.run for
train_fetches == {"predictions_series", "_y_series", "total_loss", "train_step"}

\* mutant: predict_epoch asks for the train step too
predict_fetches_train == train_fetches

\* what predict_epoch asks sess.run for
predict_fetches == {"predictions_series", "_y_series", "total_loss"}

\* the values of the variables after a sess.run of these fetches: train_step
\* moves them to some other values, any other fetch leaves them alone
Minimize(fetches) == IF "train_step" \in fetches THEN Parameters ELSE {weights}

\* the number of train steps a sess.run of these fetches applies
StepsOf(fetches) == IF "train_step" \in fetches THEN 1 ELSE 0

\* mutant: the hidden state at the end of the last run is fed as initial state
feed_dict_carried(x, batch_no, initial_state) ==
    [x |-> x[batch_no + 1],
     initial_state |->
         IF fetched = <<>> THEN initial_state
         ELSE [r \in 1..Len(initial_state) |-> fetched.h[r][Len(fetched.h[r])]]]

\* feed_dict={rnn.x: x[batch_no], rnn.y: y[batch_no], rnn.initial_state: initial_state}
feed_dict(x, batch_no, initial_state) ==
    [x |-> x[batch_no + 1], initial_state |-> initial_state]

\* one pass of "for batch_no in range(len(x))" in train_epoch
TrainBatch ==
    /\ pc = "train_epoch"
    /\ \E run \in {sess_run(use_tf_rnn_api, weights,
                            feed_dict(self.x_train, loop.batch_no, loop.init_state))} :
           fetched' = run @@ [weights |-> weights, fetches |-> train_fetches]
    /\ weights' \in Minimize(train_fetches)
    /\ IF loop.batch_no + 1 < Len(self.x_train)
       THEN /\ loop' = [loop EXCEPT !.batch_no = loop.batch_no + 1,
                                    !.train_steps = loop.train_steps + StepsOf(train_fetches)]
            /\ pc' = pc
       ELSE /\ loop' = [loop EXCEPT !.batch_no = 0,
                                    !.train_steps = loop.train_steps + StepsOf(train_fetches)]
            /\ pc' = "predict_epoch"
    /\ UNCHANGED <<err, cfgVars, self, codecVars, calcVars, use_tf_rnn_api, epochs>>

\* one pass of "for batch_no in range(len(x))" in predict_epoch; after the
\* last one the epoch is over
PredictBatch ==
    /\ pc = "predict_epoch"
    /\ \E run \in {sess_run(use_tf_rnn_api, weights,
                            feed_dict(self.x_validation, loop.batch_no, loop.init_state))} :
           fetched' = run @@ [weights |-> weights, fetches |-> predict_fetches]
    /\ weights' \in Minimize(predict_fetches)
    /\ IF loop.batch_no + 1 < Len(self.x_validation)
       THEN /\ loop' = [loop EXCEPT !.batch_no = loop.batch_no + 1,
                                    !.train_steps = loop.train_steps + StepsOf(predict_fetches)]
            /\ pc' = pc
       ELSE /\ loop' = [loop EXCEPT !.batch_no = 0,
                                    !.epoch = loop.epoch + 1,
                                    !.train_steps = loop.train_steps + StepsOf(predict_fetches)]
            /\ pc' = IF loop.epoch + 1 < epochs THEN "train_epoch" ELSE "trained"
    /\ UNCHANGED <<err, cfgVars, self, codecVars, calcVars, use_tf_rnn_api, epochs>>

NextTrain ==
    \/ BuildRnn
    \/ StartTraining
    \/ TrainBatch
    \/ PredictBatch

SpecTrain == InitTrain /\ [][NextTrain]_vars

(***************************************************************************)
(* Claims about the recurrent model and its training.                      *)
(***************************************************************************)
\* the activation of the realization that use_tf_rnn_api selects
Activation(z) == IF use_tf_rnn_api THEN tanh(z) ELSE relu(z)

\* C16: every forward pass starts each row from the zero hidden vector,
\* updates the hidden state once per bit position, in the order of the
\* positions and with the weights the run read, and gives one prediction per
\* position; nothing of an earlier pass enters it.
C16_StateMachine ==
    fetched # <<>> =>
        LET w == ItemBits(dtype)
            rows == Len(fetched.x)
            zero == [k \in H |-> 0]
        IN  /\ fetched.initial_state = [r \in 1..rows |-> zero]
            /\ Len(fetched.h) = rows
            /\ Len(fetched.logits) = rows
            /\ \A r \in 1..rows :
                   /\ Len(fetched.x[r]) = w
                   /\ Len(fetched.h[r]) = w
                   /\ Len(fetched.logits[r]) = w
                   /\ \A t \in 1..w :
                          LET before == IF t = 1 THEN zero ELSE fetched.h[r][t - 1]
                              pre == Linear(fetched.weights, fetched.x[r][t], before)
                          IN  /\ fetched.h[r][t] = [k \in H |-> Activation(pre[k])]
                              /\ fetched.logits[r][t] =
                                     Logit(fetched.weights, fetched.h[r][t])

C16_Witness ==
    /\ pc = "predict_epoch"
    /\ loop.epoch = 1
    /\ loop.batch_no = 0
    /\ ~use_tf_rnn_api
    /\ fetched # <<>>
    /\ fetched.fetches = train_fetches
    /\ fetched.weights = AdderWeights
    /\ fetched.initial_state = np_zeros(batch_size)
    /\ \E t \in 2..ItemBits(dtype) : fetched.h[1][t - 1][2] > 0 /\ fetched.h[1][t][1] > 0

\* C18: the parameters change in the train steps of train_epoch and nowhere
\* else; each epoch applies one train step per training batch, so that
\* after e epochs e * len(x_train) steps have been applied, and the loop
\* ends after epochs epochs.
C18_UpdatesPerBatch ==
    /\ [](loop # <<>> =>
            /\ loop.epoch <= epochs
            /\ loop.train_steps =
                   loop.epoch * Len(self.x_train)
                   + (IF pc = "train_epoch" THEN loop.batch_no
                      ELSE IF pc = "predict_epoch" THEN Len(self.x_train)
                      ELSE 0)
            /\ pc = "trained" <=> loop.epoch = epochs)
    /\ [][/\ pc \notin {"RnnCell", "train_epoch"} => weights' = weights
          /\ pc = "train_epoch" =>
                 /\ fetched'.x = self.x_train[loop.batch_no + 1]
                 /\ loop'.train_steps = loop.train_steps + 1
          /\ pc = "predict_epoch" =>
                 fetched'.x = self.x_validation[loop.batch_no + 1]]_vars

C18_Witness ==
    /\ pc = "trained"
    /\ epochs = 2
    /\ Len(self.x_train) = 2
    /\ loop.epoch = 2
    /\ loop.train_steps = 4
    /\ weights = AdderWeights

(***************************************************************************)
(* RNNCalc.                                                                *)
(***************************************************************************)
DigitChars == <<"0", "1", "2", "3", "4", "5", "6", "7", "8", "9">>

IsDigit(c) == \E d \in 1..10 : DigitChars[d] = c

DigitVal(c) == (CHOOSE d \in 1..10 : DigitChars[d] = c) - 1

\* -n
NumNeg(n) == IF n[2] = 0 THEN <<-n[1], 0>> ELSE <<-n[1] - 1, Base - n[2]>>

\* text.strip()
Strip(text) ==
    LET inked == {i \in 1..Len(text) : text[i] # " "}
        first == CHOOSE i \in inked : \A j \in inked : i <= j
        last == CHOOSE i \in inked : \A j \in inked : j <= i
    IN  IF inked = {} THEN <<>> ELSE SubSeq(text, first, last)

\* text without its sign
Unsigned(body) ==
    IF Len(body) > 0 /\ body[1] \in {"+", "-"} THEN Tail(body) ELSE body

\* digits, with single underscores between them
IsDigits(d) ==
    /\ Len(d) > 0
    /\ IsDigit(d[1])
    /\ IsDigit(d[Len(d)])
    /\ \A i \in 1..Len(d) : IsDigit(d[i]) \/ d[i] = "_"
    /\ \A i \in 1..(Len(d) - 1) : ~(d[i] = "_" /\ d[i + 1] = "_")

\* int(text) raises no ValueError
IsInt(text) == IsDigits(Unsigned(Strip(text)))

RECURSIVE DigitsValue(_, _)
\* the value of the first n characters of a digit text
DigitsValue(d, n) ==
    IF n = 0 THEN Num(0)
    ELSE IF d[n] = "_" THEN DigitsValue(d, n - 1)
    ELSE NumAdd(NumMul(DigitsValue(d, n - 1), 10), Num(DigitVal(d[n])))

\* int(text), for a text that IsInt
int(text) ==
    LET body == Strip(text)
        d == Unsigned(body)
    IN  IF body[1] = "-" THEN NumNeg(DigitsValue(d, Len(d))) ELSE DigitsValue(d, Len(d))

\* mutant: the upper bound itself is rejected
check_input_below(text, max_val) ==
    IF ~IsInt(text)
    THEN [ret |-> None, out |-> <<<<"print", "Not an integer!">>>>]
    ELSE IF NumLess(int(text), Num(0))
    THEN [ret |-> None, out |-> <<<<"print", "Input must not be less than 0">>>>]
    ELSE IF NumLeq(max_val, int(text))
    THEN [ret |-> None, out |-> <<<<"print", "Input must not be greater than max_val">>>>]
    ELSE [ret |-> int(text), out |-> <<>>]

\* RNNCalc._check_input once input() has returned text: the value it returns
\* and the lines it prints
_check_input(text, max_val) ==
    IF ~IsInt(text)
    THEN [ret |-> None, out |-> <<<<"print", "Not an integer!">>>>]
    ELSE IF NumLess(int(text), Num(0))
    THEN [ret |-> None, out |-> <<<<"print", "Input must not be less than 0">>>>]
    ELSE IF NumLess(max_val, int(text))
    THEN [ret |-> None, out |-> <<<<"print", "Input must not be greater than max_val">>>>]
    ELSE [ret |-> int(text), out |-> <<>>]

\* u in s, for two texts
IsSubstring(u, s) ==
    \E i \in 0..(Len(s) - Len(u)) : SubSeq(s, i + 1, i + Len(u)) = u

\* the characters typed freely at a number prompt
Alphabet == {"1", "9", "-", " ", "a"}

\* texts typed at a number prompt
Entries ==
    UNION {[1..k -> Alphabet] : k \in 0..MaxText}
    \cup {<<"0">>, <<"+", "5">>, <<"1", "_", "0">>, <<"1", ".", "5">>,
          <<"1", "0", "0">>, <<"2", "0", "0">>, <<"2", "5", "5">>, <<"2", "5", "6">>,
          <<"6", "5", "5", "3", "5">>, <<"6", "5", "5", "3", "6">>,
          <<"7", "6", "5", "7", "4", "7">>,
          <<"4", "2", "9", "4", "9", "6", "7", "2", "9", "5">>,
          <<"4", "2", "9", "4", "9", "6", "7", "2", "9", "6">>}

\* texts typed at the continuation prompt
Answers ==
    {<<>>, <<"y">>, <<"Y">>, <<"n">>, <<"N">>, <<"Y", "y">>, <<"y", "e", "s">>,
     <<"n", "o">>}

\* the length RNNCalc.run reshapes the predictions to
ReshapeLen == 32

InitCalc ==
    /\ pc = "RNNCalc"
    /\ err = "none"
    /\ dtype \in valid_dtypes
    /\ DataIdle
    /\ CodecIdle
    /\ CalcIdle
    /\ use_tf_rnn_api \in BOOLEAN
    /\ epochs = 0
    /\ weights \in Parameters
    /\ fetched = <<>>
    /\ loop = <<>>

\* RNNCalc.__init__
Construct ==
    /\ pc = "RNNCalc"
    /\ calc' = [dtype |-> dtype, max_val |-> MaxUint(ItemBits(dtype)), np_dtype |-> dtype]
    /\ pc' = "x0"
    /\ UNCHANGED <<err, cfgVars, self, codecVars, x0, x1, x_unsafe, stdout, rnnVars>>

\* x0 = self._check_input("Please input x0 ...")
InputX0 ==
    /\ pc = "x0"
    /\ \E text \in Entries :
           /\ x_unsafe' = text
           /\ x0' = _check_input(text, calc.max_val).ret
           /\ stdout' = stdout \o <<<<"input", "x0">>>> \o _check_input(text, calc.max_val).out
    /\ pc' = "x1"
    /\ UNCHANGED <<err, cfgVars, self, codecVars, calc, x1, rnnVars>>

\* x1 = self._check_input("Please input x1 ...")
InputX1 ==
    /\ pc = "x1"
    /\ \E text \in Entries :
           /\ x_unsafe' = text
           /\ x1' = _check_input(text, calc.max_val).ret
           /\ stdout' = stdout \o <<<<"input", "x1">>>> \o _check_input(text, calc.max_val).out
    /\ pc' = "if"
    /\ UNCHANGED <<err, cfgVars, self, codecVars, calc, x0, rnnVars>>

\* x0 + x1, the correct answer that run prints
correct_answer(a, b) == NumAdd(a, b)

\* the lines run prints before it evaluates the model
Shown(x0_bits, x1_bits) ==
    <<<<"print", "x0 int val", x0>>, <<"print", "x0 bin val", x0_bits>>,
      <<"print", "x0 int val", x1>>, <<"print", "x0 bin val", x1_bits>>>>

\* the body of "if x0 is not None and x1 is not None"
Calculate ==
    /\ pc = "if"
    /\ x0 # None /\ x1 # None
    /\ \E x0_bits \in {Vector(encode(x0, calc.np_dtype))},
          x1_bits \in {Vector(encode(x1, calc.np_dtype))} :
         \E x \in {<<Vector(dstack(<<x0_bits>>, <<x1_bits>>)[1])>>} :
           \E predictions \in {sess_run(use_tf_rnn_api, weights,
                                        [x |-> x, initial_state |-> np_zeros(1)])} :
             \E rounded_predictions \in
                    {Vector([t \in 1..Len(predictions.logits[1]) |->
                                around(predictions.logits[1][t])])} :
               /\ fetched' = predictions @@
                      [weights |-> weights, fetches |-> {"predictions_series"}]
               /\ IF Len(rounded_predictions) # ReshapeLen
                  THEN /\ stdout' = stdout \o Shown(x0_bits, x1_bits)
                       /\ err' = "ValueError"
                       /\ pc' = "raised"
                  ELSE /\ \E predictions_cleaned \in {rounded_predictions} :
                              stdout' = stdout \o Shown(x0_bits, x1_bits) \o
                                  <<<<"print", "y  int val",
                                      bits2arr(predictions_cleaned, calc.dtype).vals[1],
                                      correct_answer(x0, x1)>>,
                                    <<"print", "y  bin val", predictions_cleaned>>>>
                       /\ err' = err
                       /\ pc' = "new"
    /\ UNCHANGED <<cfgVars, self, codecVars, calc, x0, x1, x_unsafe,
                   use_tf_rnn_api, epochs, weights, loop>>

\* mutant: a round with a rejected entry ends the loop at once
Abandon_break ==
    /\ pc = "if"
    /\ ~(x0 # None /\ x1 # None)
    /\ pc' = "done"
    /\ UNCHANGED <<err, cfgVars, self, codecVars, calcVars, rnnVars>>

\* mutant: the test is "or", and encoding None raises TypeError
Abandon_encodes ==
    /\ pc = "if"
    /\ ~(x0 # None /\ x1 # None)
    /\ pc' = IF x0 = None /\ x1 = None THEN "new" ELSE "raised"
    /\ err' = IF x0 = None /\ x1 = None THEN err ELSE "TypeError"
    /\ UNCHANGED <<cfgVars, self, codecVars, calcVars, rnnVars>>

\* the if is false: nothing is calculated
Abandon ==
    /\ pc = "if"
    /\ ~(x0 # None /\ x1 # None)
    /\ pc' = "new"
    /\ UNCHANGED <<err, cfgVars, self, codecVars, calcVars, rnnVars>>

\* user_input = input("Do you wish ... (y/N)"); break unless it is in "Yy".
\* A new round starts with what the last one left in x0 and x1, on the screen
\* and in the session's last run forgotten: the loop reads none of it again.
NewCalculation ==
    /\ pc = "new"
    /\ \E user_input \in Answers :
           /\ x_unsafe' = user_input
           /\ IF ~IsSubstring(user_input, <<"Y", "y">>)
              THEN /\ pc' = "done"
                   /\ stdout' = stdout \o <<<<"input", "new calculation">>>>
                   /\ UNCHANGED <<x0, x1, fetched>>
              ELSE /\ pc' = "x0"
                   /\ stdout' = <<>>
                   /\ x0' = None
                   /\ x1' = None
                   /\ fetched' = <<>>
    /\ UNCHANGED <<err, cfgVars, self, codecVars, calc, use_tf_rnn_api, epochs, weights, loop>>

NextCalc ==
    \/ Construct
    \/ InputX0
    \/ InputX1
    \/ Calculate
    \/ Abandon
    \/ NewCalculation

SpecCalc == InitCalc /\ [][NextCalc]_vars

(***************************************************************************)
(* Claims about RNNCalc.                                                   *)
(***************************************************************************)
\* the lines printed since the last prompt
PrintedSincePrompt ==
    LET asked == {i \in 1..Len(stdout) : stdout[i][1] = "input"}
        last == CHOOSE i \in asked : \A j \in asked : j <= i
    IN  {i \in 1..Len(stdout) : i > last /\ stdout[i][1] = "print"}

\* what the last call of _check_input returned
Returned == IF pc = "x1" THEN x0 ELSE x1

\* C10: _check_input returns the integer exactly when the text parses as an
\* integer v with 0 <= v <= max_val; for every other text it prints exactly
\* one message, returns None and raises nothing.
C10_CheckInput ==
    pc \in {"x1", "if"} =>
        /\ err = "none"
        /\ IF IsInt(x_unsafe) /\ NumLeq(Num(0), int(x_unsafe))
                /\ NumLeq(int(x_unsafe), MaxUint(ItemBits(dtype)))
           THEN /\ Returned = int(x_unsafe)
                /\ PrintedSincePrompt = {}
           ELSE /\ Returned = None
                /\ Cardinality(PrintedSincePrompt) = 1

C10_Witness ==
    /\ pc = "if"
    /\ dtype = "uint16"
    /\ x_unsafe = <<"6", "5", "5", "3", "5">>
    /\ x1 = <<0, 65535>>
    /\ x0 = None
    /\ Len(stdout) = 3

\* the messages _check_input prints when it rejects an entry
Rejections ==
    {"Not an integer!", "Input must not be less than 0",
     "Input must not be greater than max_val"}

\* the number prompts on the screen whose entry was rejected
Rejected ==
    {i \in 1..(Len(stdout) - 1) :
        /\ stdout[i][1] = "input"
        /\ stdout[i][2] \in {"x0", "x1"}
        /\ stdout[i + 1][1] = "print"
        /\ stdout[i + 1][2] \in Rejections}

\* the run of the calculator is over
Ended == pc \in {"done", "raised"}

\* C11 as claimed: a rejected entry is never followed by the calculator
\* ending without a new number prompt.
C11_RePrompt ==
    Ended =>
        \A i \in Rejected :
            \E j \in (i + 1)..Len(stdout) :
                stdout[j][1] = "input" /\ stdout[j][2] \in {"x0", "x1"}

\* C11, amended: a rejected entry is always followed by another prompt, the
\* x1 prompt after x0 and the continuation prompt after x1; when the
\* calculator ends after a rejected entry, it ends at the continuation prompt,
\* on an answer that does not continue the loop, and without an exception.
C11_PromptAfterRejected ==
    (Ended /\ Rejected # {}) =>
        /\ pc = "done"
        /\ err = "none"
        /\ stdout[Len(stdout)] = <<"input", "new calculation">>
        /\ ~IsSubstring(x_unsafe, <<"Y", "y">>)
        /\ \A i \in Rejected :
               /\ stdout[i][2] = "x0" =>
                      \E j \in (i + 1)..Len(stdout) : stdout[j] = <<"input", "x1">>
               /\ \E j \in (i + 1)..Len(stdout) : stdout[j][1] = "input"

C11_Witness ==
    /\ pc = "done"
    /\ x0 = Num(200)
    /\ x1 = None
    /\ stdout = <<<<"input", "x0">>, <<"input", "x1">>, <<"print", "Not an integer!">>,
                  <<"input", "new calculation">>>>
    /\ x_unsafe = <<"n">>

\* the line that shows the result of a round
IsResult(line) == line[1] = "print" /\ line[2] = "y  int val"

\* C12: in a round in which x0 or x1 was rejected, the step after the x1
\* prompt goes to the continuation prompt: the model is not evaluated,
\* no result line is printed and no exception escapes.
C12_InvalidRoundAbandoned ==
    [][(pc = "if" /\ (x0 = None \/ x1 = None)) =>
          /\ pc' = "new"
          /\ err' = "none"
          /\ fetched' = <<>>
          /\ stdout' = stdout
          /\ \A i \in 1..Len(stdout') : ~IsResult(stdout'[i])]_vars

C12_Witness ==
    /\ pc = "new"
    /\ dtype = "uint8"
    /\ x0 = None
    /\ x1 = Num(255)
    /\ fetched = <<>>
    /\ err = "none"
    /\ Len(stdout) = 3

\* C13: after a round another one starts exactly when the answer to the
\* continuation prompt is "y" or "Y"; every other answer, the empty one
\* included, ends the loop.
C13_LoopExit ==
    [][pc = "new" =>
          /\ pc' \in {"x0", "done"}
          /\ pc' = "x0" <=> x_unsafe' \in {<<"y">>, <<"Y">>}]_vars

\* C14: at each width w a round with two valid inputs feeds the model w
\* pairs and a zero initial state, gets w prediction bits, prints the integer
\* they decode to and completes without error.
C14_EveryWidth ==
    (pc \in {"new", "done", "raised"} /\ x0 # None /\ x1 # None) =>
        /\ err = "none"
        /\ pc # "raised"
        /\ fetched # <<>>
        /\ Len(fetched.x) = 1
        /\ Len(fetched.x[1]) = ItemBits(dtype)
        /\ fetched.initial_state = np_zeros(1)
        /\ Len(fetched.logits[1]) = ItemBits(dtype)
        /\ \E i \in 1..Len(stdout) :
               /\ IsResult(stdout[i])
               /\ stdout[i][3] =
                      bits2arr([t \in 1..ItemBits(dtype) |-> around(fetched.logits[1][t])],
                               dtype).vals[1]

\* the prompts on the screen, in order
Prompts ==
    LET IsPrompt(line) == line[1] = "input"
        asked == SelectSeq(stdout, IsPrompt)
    IN  [i \in 1..Len(asked) |-> asked[i][2]]

\* C15: every round prompts for x0, then x1, then the continuation, once
\* each, whatever is entered; result output comes between the x1 prompt and
\* the continuation prompt.
C15_RoundStructure ==
    /\ pc = "x1" => Prompts = <<"x0">>
    /\ pc \in {"if", "new"} => Prompts = <<"x0", "x1">>
    /\ pc = "done" => Prompts = <<"x0", "x1", "new calculation">>
    /\ pc = "raised" => Prompts = <<"x0", "x1", "new calculation">>
    /\ \A i \in 1..Len(stdout) :
           IsResult(stdout[i]) =>
               /\ \E j \in 1..(i - 1) : stdout[j] = <<"input", "x1">>
               /\ \A j \in 1..(i - 1) : stdout[j] # <<"input", "new calculation">>

\* C17: with the same weights, input and initial state, the hand-rolled
\* unroll and the library primitive give the same per-step outputs.
C17_SameOutputs ==
    fetched # <<>> =>
        LET feed == [x |-> fetched.x, initial_state |-> fetched.initial_state]
        IN  sess_run(TRUE, weights, feed).logits = sess_run(FALSE, weights, feed).logits

\* C20: the correct answer a round prints is (x0 + x1) mod 2^width: it lies
\* in [0, max_val], and a correctly predicted bit vector decodes to it.
C20_ReferenceSum ==
    \A i \in 1..Len(stdout) :
        IsResult(stdout[i]) =>
            /\ stdout[i][4] = Wrap(NumAdd(x0, x1), dtype)
            /\ InRange(stdout[i][4], ItemBits(dtype))
            /\ stdout[i + 1][3] = encode(Wrap(NumAdd(x0, x1), dtype), dtype)
                   => stdout[i][3] = stdout[i][4]

====
